---- MODULE Spec2Model ----
(***************************************************************************)
(* Model of send_bulk_intern_emails.js: the bulk sender reads a JSON list  *)
(* of contacts, filters it against the log of earlier successes, and for   *)
(* each remaining contact calls the SMTP transport, records the outcome in *)
(* the log and rewrites the log file.                                      *)
(*                                                                         *)
(* A JavaScript string is a sequence of one-character strings, so that     *)
(* includes('@'), the honorific pattern and trim() are computed on the     *)
(* characters.  The value undefined is the one-element sequence            *)
(* <<"undefined">>, which is no character sequence.                        *)
(***************************************************************************)
EXTENDS Integers, Sequences, FiniteSets, TLC

VARIABLES
    argv,           \* process.argv.slice(2)
    env,            \* which of GMAIL_USER, GMAIL_APP_PASSWORD are set
    companiesFile,  \* the file CONFIG.COMPANIES_JSON
    disk,           \* the file CONFIG.LOG_FILE
    pc,             \* the position of the process
    companies,      \* sendBulkEmails: const companies
    log,            \* sendBulkEmails: const log (mutated in place)
    toSend,         \* sendBulkEmails: const toSend
    i,              \* sendBulkEmails: the loop index
    events,         \* what this run did to the outside, in order
    summary,        \* the counts printed by the last console.log
    clock,          \* the wall clock read by new Date()
    runs,           \* the number of processes started so far
    log0,           \* the log as loaded at the start of this run
    disk0,          \* the log file as it was when this run started
    origin,         \* the log file as it was before the first run
    accepted,       \* the messages the transport has accepted, run by run
    twin            \* what the run over the same list in the native
                    \* naming scheme did (comparison of the two schemes)

vars == <<argv, env, companiesFile, disk, pc, companies, log, toSend, i,
          events, summary, clock, runs, log0, disk0, origin, accepted, twin>>

----------------------------------------------------------------------------
(* Bounds *)

MaxContacts == 3    \* longest contact list in the input file
MaxRuns == 2        \* processes started one after the other

----------------------------------------------------------------------------
(* Strings *)

Undefined == <<"undefined">>
Empty == <<>>
NA == <<"N", "/", "A">>

Truthy(v) == v # Undefined /\ v # Empty

\* a || b
OrElse(a, b) == IF Truthy(a) THEN a ELSE b

\* s.includes(ch)
Includes(s, ch) == \E k \in 1..Len(s) : s[k] = ch

IsSpace(ch) == ch \in {" ", "\t", "\n"}

RECURSIVE TrimStart(_)
TrimStart(s) ==
    IF s # <<>> /\ IsSpace(Head(s)) THEN TrimStart(Tail(s)) ELSE s

RECURSIVE TrimEnd(_)
TrimEnd(s) ==
    IF s # <<>> /\ IsSpace(s[Len(s)])
    THEN TrimEnd(SubSeq(s, 1, Len(s) - 1))
    ELSE s

\* s.trim()
Trim(s) == TrimEnd(TrimStart(s))

\* a pattern without the i flag
LowerNot(ch) == ch

\* the i flag of the pattern, on the letters the pattern names
Lower(ch) ==
    CASE ch = "M" -> "m"
      [] ch = "R" -> "r"
      [] ch = "S" -> "s"
      [] ch = "D" -> "d"
      [] ch = "E" -> "e"
      [] OTHER -> ch

\* the alternatives of /^(Mr\.|Mrs\.|Ms\.|Dr\.|M\.|Mme\.)\s*/i, in order
Honorifics ==
    << <<"m", "r", ".">>, <<"m", "r", "s", ".">>, <<"m", "s", ".">>,
       <<"d", "r", ".">>, <<"m", ".">>, <<"m", "m", "e", ".">> >>

StartsWithCI(s, p) ==
    /\ Len(s) >= Len(p)
    /\ \A k \in 1..Len(p) : Lower(s[k]) = p[k]

\* s.replace(/^(Mr\.|...)\s*/i, ''): the first alternative that matches at
\* position 0 is removed together with the white space that follows it
StripHonorific(s) ==
    IF \E h \in 1..Len(Honorifics) : StartsWithCI(s, Honorifics[h])
    THEN LET h == CHOOSE h \in 1..Len(Honorifics) :
                      /\ StartsWithCI(s, Honorifics[h])
                      /\ \A g \in 1..(h - 1) : ~StartsWithCI(s, Honorifics[g])
         IN  TrimStart(SubSeq(s, Len(Honorifics[h]) + 1, Len(s)))
    ELSE s

----------------------------------------------------------------------------
(* createEmail *)

Dear == <<"D", "e", "a", "r", " ">>
TeamSuffix == <<" ", "t", "e", "a", "m">>
HiringManager == Dear \o <<"H", "i", "r", "i", "n", "g", " ",
                            "M", "a", "n", "a", "g", "e", "r">>
SUBJECT == "Internship Application - Full Stack Developer"

\* founderName?.replace(...).trim()
CleanName(founderName) ==
    IF founderName = Undefined THEN Undefined
    ELSE Trim(StripHonorific(founderName))

Greeting(founderName, companyName) ==
    LET name == CleanName(founderName) IN
    IF Truthy(name) /\ name # NA THEN Dear \o name
    ELSE IF Truthy(companyName) /\ companyName # NA
         THEN Dear \o companyName \o TeamSuffix
         ELSE HiringManager

createEmail(founderName, companyName) ==
    [subject |-> SUBJECT, greeting |-> Greeting(founderName, companyName)]

----------------------------------------------------------------------------
(* Contact records *)

AatX == <<"a", "@", "x">>
BatX == <<"b", "@", "x">>
NoAt == <<"a", "b">>
Acme == <<"X">>
DrJ == <<"D", "r", ".", " ", "J">>

Raw(e, c, f, ee, ec, ef) ==
    [email |-> e, companyName |-> c, founderName |-> f,
     EntrepriseContactEmail |-> ee, EntrepriseName |-> ec,
     EntrepriseContactName |-> ef]

U == Undefined

\* the records an input file is made of: a record in the native scheme, a
\* record whose native email is empty and whose address and company are in
\* the alternate fields, and every kind of unusable email ("N/A" in front
\* of a usable alternate, no '@', none at all)
RawContacts ==
    { Raw(AatX, Acme, DrJ, U, U, U),
      Raw(Empty, U, NA, BatX, NA, U),
      Raw(NA, Acme, U, AatX, U, U),
      Raw(NoAt, Acme, U, U, U, U),
      Raw(U, Acme, U, Empty, U, U) }

RECURSIVE ListsUpTo(_, _)
ListsUpTo(S, n) ==
    IF n = 0 THEN { <<>> }
    ELSE LET shorter == ListsUpTo(S, n - 1) IN
         shorter \cup { Append(l, x) : l \in { m \in shorter : Len(m) = n - 1 },
                                       x \in S }

----------------------------------------------------------------------------
(* Files *)

EmptyLog == [sent |-> <<>>, failed |-> <<>>]

Absent == [kind |-> "absent", value |-> EmptyLog]
Malformed == [kind |-> "malformed", value |-> EmptyLog]
Json(v) == [kind |-> "json", value |-> v]

\* a log left by an earlier campaign
PriorLog ==
    [sent |-> << [email |-> AatX, companyName |-> Acme, timestamp |-> 0] >>,
     failed |-> << [email |-> BatX, companyName |-> NA, error |-> "timeout",
                    timestamp |-> 0] >>]

ErrorMessages == {"timeout"}
AuthError == "auth"

----------------------------------------------------------------------------
(* CONFIG *)

DELAY_MINUTES == 1

----------------------------------------------------------------------------
(* The helpers of sendBulkEmails *)

\* loadLog: the default when the file does not exist, else fs.readJSON,
\* which throws on a file that is not JSON
loadLog(d) ==
    IF d.kind = "absent" THEN [threw |-> FALSE, value |-> EmptyLog]
    ELSE IF d.kind = "json" THEN [threw |-> FALSE, value |-> d.value]
    ELSE [threw |-> TRUE, value |-> EmptyLog]

\* saveLog that leaves the file as it is
saveLogNothing(d, l) == d

\* saveLog: fs.writeJSON replaces the file by the whole structure
saveLog(d, l) == Json(l)

\* sleep(minutes): the timer armed by setTimeout
sleep(minutes) == minutes * 60000

\* a skip set that also holds the addresses in log.failed
AlreadySentOrFailed(l) ==
    { l.sent[k].email : k \in 1..Len(l.sent) }
        \cup { l.failed[k].email : k \in 1..Len(l.failed) }

\* new Set(log.sent.map(e => e.email))
AlreadySent(l) == { l.sent[k].email : k \in 1..Len(l.sent) }

ResolveEmail(c) == OrElse(c.email, c.EntrepriseContactEmail)
ResolveCompany(c) == OrElse(c.companyName, c.EntrepriseName)
ResolveFounder(c) == OrElse(c.founderName, c.EntrepriseContactName)

\* the filter without the test against log.sent
EligibleNoSkip(c, alreadySent) ==
    LET email == OrElse(c.email, c.EntrepriseContactEmail) IN
    /\ Truthy(email)
    /\ email # NA
    /\ Includes(email, "@")

\* the filter without the test for '@'
EligibleNoAt(c, alreadySent) ==
    LET email == OrElse(c.email, c.EntrepriseContactEmail) IN
    /\ Truthy(email)
    /\ email # NA
    /\ email \notin alreadySent

\* the predicate of companies.filter
Eligible(c, alreadySent) ==
    LET email == ResolveEmail(c) IN
    /\ Truthy(email)
    /\ email # NA
    /\ email \notin alreadySent
    /\ Includes(email, "@")

\* a filter that yields the matching elements last first
RECURSIVE FilterBackwards(_, _)
FilterBackwards(cs, alreadySent) ==
    IF cs = <<>> THEN <<>>
    ELSE IF Eligible(Head(cs), alreadySent)
         THEN FilterBackwards(Tail(cs), alreadySent) \o <<Head(cs)>>
         ELSE FilterBackwards(Tail(cs), alreadySent)

\* Array.prototype.filter: the matching elements in their order
RECURSIVE Filter(_, _)
Filter(cs, alreadySent) ==
    IF cs = <<>> THEN <<>>
    ELSE IF Eligible(Head(cs), alreadySent)
         THEN <<Head(cs)>> \o Filter(Tail(cs), alreadySent)
         ELSE Filter(Tail(cs), alreadySent)

\* a push that puts the new entry first (unshift)
PushSentFront(l, email, companyName, now) ==
    [l EXCEPT !.sent = << [email |-> email, companyName |-> companyName,
                           timestamp |-> now] >> \o @]

\* log.sent.push({email, companyName, timestamp})
PushSent(l, email, companyName, now) ==
    [l EXCEPT !.sent = Append(@, [email |-> email,
                                  companyName |-> companyName,
                                  timestamp |-> now])]

\* a catch block that records nothing
PushFailedNothing(l, email, companyName, message, now) == l

\* log.failed.push({email, companyName, error, timestamp})
PushFailed(l, email, companyName, message, now) ==
    [l EXCEPT !.failed = Append(@, [email |-> email,
                                    companyName |-> companyName,
                                    error |-> message,
                                    timestamp |-> now])]

\* a try block that sleeps after the last contact too
AfterSuccessAlwaysSleep(idx, n) == "sleep"

\* where the try block goes once sendEmail has resolved: the delay when
\* this is not the last contact, then saveLog
AfterSuccess(idx, n) == IF idx < n - 1 THEN "sleep" ELSE "save"

\* a catch block that ends the loop
AfterFailureAbort(idx, n) == "done"

\* where the catch block goes: straight to saveLog
AfterFailure(idx, n) == "save"

\* the counts of the final console.log
ReportedCounts(l) == [sent |-> Len(l.sent), failed |-> Len(l.failed)]

NoSummary == [printed |-> FALSE, sent |-> 0, failed |-> 0]

NoTwin == [done |-> FALSE, toSend |-> <<>>, events |-> <<>>, log |-> EmptyLog]

\* createTransport passes the two variables on unchecked; the SMTP server
\* accepts a message only from a client that has both
CanAuthenticate(e) == e.user /\ e.pass

----------------------------------------------------------------------------
(* The process *)

\* the environments the tool is started in: both credentials, or one of
\* them missing
Environments ==
    { [user |-> TRUE, pass |-> TRUE],
      [user |-> FALSE, pass |-> TRUE],
      [user |-> TRUE, pass |-> FALSE] }

\* the command lines the tool is started with
Arguments == { <<>>, <<"--help">>, <<"-h">> }

\* a test that knows the long flag only
WantsHelpLongOnly(args) == Includes(args, "--help")

\* args.includes('--help') || args.includes('-h')
WantsHelp(args) == Includes(args, "--help") \/ Includes(args, "-h")

\* a loader that takes an unreadable list for an empty one
readJSONLenient(f) ==
    IF f.kind = "json" THEN [threw |-> FALSE, value |-> f.value]
    ELSE [threw |-> FALSE, value |-> <<>>]

\* fs.readJSON(CONFIG.COMPANIES_JSON): rejects when the file is missing or
\* is not JSON
readJSON(f) ==
    IF f.kind = "json" THEN [threw |-> FALSE, value |-> f.value]
    ELSE [threw |-> TRUE, value |-> <<>>]

Init ==
    /\ argv \in Arguments
    /\ env \in Environments
    /\ companiesFile \in
          { [kind |-> "absent", value |-> <<>>],
            [kind |-> "malformed", value |-> <<>>] }
          \cup { [kind |-> "json", value |-> l] :
                    l \in ListsUpTo(RawContacts, MaxContacts) }
    /\ disk \in {Absent, Malformed, Json(PriorLog)}
    /\ pc = "start"
    /\ companies = <<>>
    /\ log = EmptyLog
    /\ toSend = <<>>
    /\ i = 0
    /\ events = <<>>
    /\ summary = NoSummary
    /\ clock = 1
    /\ runs = 1
    /\ log0 = EmptyLog
    /\ disk0 = disk
    /\ origin = disk
    /\ accepted = <<>>
    /\ twin = NoTwin

\* lines 163-169 with --help or -h: showHelp, and the module ends
Help ==
    /\ pc = "start"
    /\ WantsHelp(argv)
    /\ events' = Append(events, [t |-> "usage"])
    /\ pc' = "done"
    /\ UNCHANGED <<argv, env, companiesFile, disk, companies, log, toSend, i,
                   summary, clock, runs, log0, disk0, origin, accepted, twin>>

\* lines 163-169 otherwise: sendBulkEmails is called
Main ==
    /\ pc = "start"
    /\ ~WantsHelp(argv)
    /\ pc' = "readCompanies"
    /\ UNCHANGED <<argv, env, companiesFile, disk, companies, log, toSend, i,
                   events, summary, clock, runs, log0, disk0, origin, accepted, twin>>

\* line 91: fs.readJSON rejects on a missing or malformed file, nothing
\* catches it and the process ends with the error
ReadCompanies ==
    /\ pc = "readCompanies"
    /\ LET r == readJSON(companiesFile) IN
       IF r.threw
       THEN /\ companies' = companies
            /\ pc' = "crashed"
       ELSE /\ companies' = r.value
            /\ pc' = "loadLog"
    /\ events' = Append(events, [t |-> "readList"])
    /\ UNCHANGED <<argv, env, companiesFile, disk, log, toSend, i,
                   summary, clock, runs, log0, disk0, origin, accepted, twin>>

\* lines 92-100: the log is loaded, and the contacts are filtered against
\* the addresses in log.sent
LoadLog ==
    /\ pc = "loadLog"
    /\ LET r == loadLog(disk) IN
       IF r.threw
       THEN /\ pc' = "crashed"
            /\ UNCHANGED <<log, log0, toSend, i>>
       ELSE /\ log' = r.value
            /\ log0' = r.value
            /\ toSend' = Filter(companies, AlreadySent(r.value))
            /\ i' = 0
            /\ pc' = "loop"
    /\ events' = Append(events, [t |-> "readLog"])
    /\ UNCHANGED <<argv, env, companiesFile, disk, companies,
                   summary, clock, runs, disk0, origin, accepted, twin>>

\* lines 102-110 and 57-70: the next contact's fields are resolved, the
\* message composed, the transport constructed and sendMail called
Invoke ==
    /\ pc = "loop"
    /\ i < Len(toSend)
    /\ LET company == toSend[i + 1]
           email == ResolveEmail(company)
           companyName == ResolveCompany(company)
           founderName == ResolveFounder(company)
           mail == createEmail(founderName, companyName)
       IN  events' = Append(events, [t |-> "invoke", idx |-> i, to |-> email,
                                     auth |-> env, subject |-> mail.subject,
                                     greeting |-> mail.greeting])
    /\ pc' = "awaitSend"
    /\ UNCHANGED <<argv, env, companiesFile, disk, companies, log, toSend, i,
                   summary, clock, runs, log0, disk0, origin, accepted, twin>>

\* lines 110-123: sendMail resolved
SendOk ==
    /\ pc = "awaitSend"
    /\ CanAuthenticate(env)
    /\ LET company == toSend[i + 1] IN
       log' = PushSent(log, ResolveEmail(company), ResolveCompany(company),
                       clock)
    /\ accepted' = Append(accepted, [run |-> runs,
                                     to |-> ResolveEmail(toSend[i + 1])])
    /\ clock' = clock + 1
    /\ events' = Append(events, [t |-> "ok", idx |-> i])
    /\ pc' = AfterSuccess(i, Len(toSend))
    /\ UNCHANGED <<argv, env, companiesFile, disk, companies, toSend, i,
                   summary, runs, log0, disk0, origin, twin>>

\* lines 124-132: sendMail rejected with an error
SendFail ==
    /\ pc = "awaitSend"
    /\ \E message \in (IF CanAuthenticate(env) THEN ErrorMessages
                       ELSE {AuthError}) :
          /\ LET company == toSend[i + 1] IN
             log' = PushFailed(log, ResolveEmail(company),
                               ResolveCompany(company), message, clock)
          /\ events' = Append(events, [t |-> "error", idx |-> i,
                                       message |-> message])
    /\ clock' = clock + 1
    /\ pc' = AfterFailure(i, Len(toSend))
    /\ UNCHANGED <<argv, env, companiesFile, disk, companies, toSend, i,
                   summary, runs, log0, disk0, origin, accepted, twin>>

\* line 122: the timer of sleep fires
Sleep ==
    /\ pc = "sleep"
    /\ events' = Append(events, [t |-> "sleep", idx |-> i,
                                 ms |-> sleep(DELAY_MINUTES)])
    /\ pc' = "save"
    /\ UNCHANGED <<argv, env, companiesFile, disk, companies, log, toSend, i,
                   summary, clock, runs, log0, disk0, origin, accepted, twin>>

\* line 134 and the loop increment
SaveLog ==
    /\ pc = "save"
    /\ disk' = saveLog(disk, log)
    /\ events' = Append(events, [t |-> "write", idx |-> i])
    /\ i' = i + 1
    /\ pc' = "loop"
    /\ UNCHANGED <<argv, env, companiesFile, companies, log, toSend,
                   summary, clock, runs, log0, disk0, origin, accepted, twin>>

\* line 137: the loop is over, the counts are printed
Summary ==
    /\ pc = "loop"
    /\ i >= Len(toSend)
    /\ summary' = [printed |-> TRUE] @@ ReportedCounts(log)
    /\ pc' = "done"
    /\ UNCHANGED <<argv, env, companiesFile, disk, companies, log, toSend, i,
                   events, clock, runs, log0, disk0, origin, accepted, twin>>

\* the operator starts the tool again on the same files
Restart ==
    /\ pc \in {"done", "crashed"}
    /\ runs < MaxRuns
    /\ runs' = runs + 1
    /\ argv' \in Arguments
    /\ pc' = "start"
    /\ companies' = <<>>
    /\ log' = EmptyLog
    /\ toSend' = <<>>
    /\ i' = 0
    /\ events' = <<>>
    /\ summary' = NoSummary
    /\ log0' = EmptyLog
    /\ disk0' = disk
    /\ UNCHANGED <<env, companiesFile, disk, clock, origin, accepted, twin>>

Next ==
    \/ Help
    \/ Main
    \/ ReadCompanies
    \/ LoadLog
    \/ Invoke
    \/ SendOk
    \/ SendFail
    \/ Sleep
    \/ SaveLog
    \/ Summary
    \/ Restart

Spec == Init /\ [][Next]_vars

TypeOK ==
    /\ pc \in {"start", "readCompanies", "loadLog", "loop", "awaitSend",
               "sleep", "save", "done", "crashed"}
    /\ i \in 0..MaxContacts
    /\ runs \in 1..MaxRuns
    /\ Len(toSend) <= Len(companies)

----------------------------------------------------------------------------
(* Vocabulary of the properties *)

\* the positions in events of the events of one kind
EventsOf(kind) == { k \in 1..Len(events) : events[k].t = kind }

Invocations == EventsOf("invoke")
Outcomes == EventsOf("ok") \cup EventsOf("error")

\* the entries a log has gained since this run loaded it
NewSent(l) == SubSeq(l.sent, Len(log0.sent) + 1, Len(l.sent))
NewFailed(l) == SubSeq(l.failed, Len(log0.failed) + 1, Len(l.failed))

EntriesFor(entries, E) == SelectSeq(entries, LAMBDA e : e.email = E)

\* the address of the idx-th eligible contact (idx counts from 0)
AddressOf(idx) == ResolveEmail(toSend[idx + 1])

\* an address no transport call may get
Unusable(email) == ~Truthy(email) \/ email = NA \/ ~Includes(email, "@")

\* the run has gone through its whole loop and printed the counts
RunComplete == pc = "done" /\ summary.printed

\* the log has been loaded and the contacts filtered
InLoop == pc \in {"loop", "awaitSend", "sleep", "save"} \/ RunComplete

----------------------------------------------------------------------------
(* C1: an address that is in sent when the run loads the log is never      *)
(* given to the transport in that run, and the entries for it in sent, in  *)
(* memory and in the file, stay the ones the run started with.             *)
C1_IdempotentSkip ==
    \A E \in AlreadySent(log0) :
        /\ \A k \in Invocations : events[k].to # E
        /\ EntriesFor(log.sent, E) = EntriesFor(log0.sent, E)
        /\ disk.kind = "json" =>
              EntriesFor(disk.value.sent, E) = EntriesFor(log0.sent, E)

\* a run over a list naming an address already in sent has mailed another
\* contact and finished
C1_Witness ==
    /\ RunComplete
    /\ \E k \in 1..Len(companies) :
          ResolveEmail(companies[k]) \in AlreadySent(log0)
    /\ Invocations # {}

----------------------------------------------------------------------------
(* C2: between two consecutive transport calls of one run the loop has     *)
(* slept for the whole configured delay, whatever the outcome of the       *)
(* earlier call.                                                           *)
C2_Pacing ==
    \A k, l \in Invocations :
        (k < l /\ \A m \in Invocations : ~(k < m /\ m < l)) =>
            \E m \in EventsOf("sleep") :
                /\ k < m /\ m < l
                /\ events[m].ms = DELAY_MINUTES * 60000

----------------------------------------------------------------------------
(* C3: while the loop is suspended in the delay that follows contact K's   *)
(* transport call, the log file already holds K's entry.                   *)
C3_DurableDuringDelay ==
    pc = "sleep" =>
        /\ disk.kind = "json"
        /\ Len(EntriesFor(NewSent(disk.value), AddressOf(i))) >= 1

----------------------------------------------------------------------------
(* C4: whenever the transport is called for the (K+1)-th eligible contact, *)
(* the log file holds what the log in memory holds, and that is the log    *)
(* the run started with followed by one entry for each of the first K      *)
(* eligible contacts.                                                      *)
C4_DurableBeforeNext ==
    pc = "awaitSend" =>
        /\ ~loadLog(disk).threw
        /\ loadLog(disk).value = log
        /\ Len(NewSent(disk.value)) + Len(NewFailed(disk.value)) = i
        /\ \A idx \in 0..(i - 1) :
              \E k \in Outcomes :
                  /\ events[k].idx = idx
                  /\ Len(EntriesFor(IF events[k].t = "ok"
                                    THEN NewSent(disk.value)
                                    ELSE NewFailed(disk.value),
                                    AddressOf(idx))) >= 1

\* the third call of a run is under way, after a success and a failure
C4_Witness ==
    /\ pc = "awaitSend"
    /\ i = 2
    /\ Len(NewSent(disk.value)) = 1
    /\ Len(NewFailed(disk.value)) = 1

----------------------------------------------------------------------------
\* the calls made for the idx-th eligible contact, and their outcomes
InvocationsOf(idx) == { k \in Invocations : events[k].idx = idx }
OutcomesOf(idx) == { k \in Outcomes : events[k].idx = idx }

\* the eligible contacts with address E whose call had the outcome kind
OutcomesFor(kind, E) ==
    { k \in EventsOf(kind) : AddressOf(events[k].idx) = E }

\* the records of the input the run has to attempt
EligibleRecords ==
    { p \in 1..Len(companies) :
         /\ ~Unusable(ResolveEmail(companies[p]))
         /\ ResolveEmail(companies[p]) \notin AlreadySent(log0) }

(* C5: after a complete run every record with a usable address that was   *)
(* not in sent at the start has had exactly one transport call and has     *)
(* produced exactly one new entry: in sent when the call succeeded, in     *)
(* failed when it threw.                                                   *)
C5_ExhaustivePartition ==
    RunComplete =>
        /\ Len(toSend) = Cardinality(EligibleRecords)
        /\ \A idx \in 0..(Len(toSend) - 1) :
              /\ Cardinality(InvocationsOf(idx)) = 1
              /\ Cardinality(OutcomesOf(idx)) = 1
              /\ Len(EntriesFor(NewSent(log), AddressOf(idx))) =
                    Cardinality(OutcomesFor("ok", AddressOf(idx)))
              /\ Len(EntriesFor(NewFailed(log), AddressOf(idx))) =
                    Cardinality(OutcomesFor("error", AddressOf(idx)))
        /\ Len(NewSent(log)) + Len(NewFailed(log)) = Len(toSend)
        /\ toSend # <<>> => disk = Json(log)

\* a complete run over three eligible contacts, with both outcomes
C5_Witness ==
    /\ RunComplete
    /\ Len(toSend) = 3
    /\ NewSent(log) # <<>>
    /\ NewFailed(log) # <<>>

----------------------------------------------------------------------------
(* C6: with a credential variable unset and an eligible contact, the run   *)
(* aborts at the first construction of the transport: nothing is recorded  *)
(* in failed and the loop makes no further call.                           *)
C6_MissingCredentialsFatal ==
    (~CanAuthenticate(env) /\ InLoop /\ toSend # <<>>) =>
        /\ ~RunComplete
        /\ NewFailed(log) = <<>>
        /\ Cardinality(Invocations) <= 1

----------------------------------------------------------------------------
(* C7: a log file that is not JSON does not abort the run: the log is      *)
(* taken to be empty and every eligible contact is attempted.              *)
C7_MalformedLogSoft ==
    (disk0 = Malformed /\ ~WantsHelp(argv) /\ companiesFile.kind = "json") =>
        /\ pc # "crashed"
        /\ InLoop => log0 = EmptyLog
        /\ RunComplete =>
              \A idx \in 0..(Len(toSend) - 1) : InvocationsOf(idx) # {}

----------------------------------------------------------------------------
(* C8: when the call for eligible contact K throws, an entry with the      *)
(* error's message is appended to failed, K is not attempted again, the    *)
(* run does not abort, and when it ends every eligible contact after K has *)
(* been attempted exactly once.                                            *)
C8_FailureIsolation ==
    \A k \in EventsOf("error") :
        LET K == events[k].idx IN
        /\ \E n \in 1..Len(NewFailed(log)) :
              /\ NewFailed(log)[n].email = AddressOf(K)
              /\ NewFailed(log)[n].error = events[k].message
        /\ Cardinality(InvocationsOf(K)) = 1
        /\ pc # "crashed"
        /\ pc = "done" =>
              \A idx \in (K + 1)..(Len(toSend) - 1) :
                  Cardinality(InvocationsOf(idx)) = 1

\* the first of three calls threw and a later one succeeded
C8_Witness ==
    /\ RunComplete
    /\ Len(toSend) = 3
    /\ \E k \in EventsOf("error") : events[k].idx = 0
    /\ \E k \in EventsOf("ok") : events[k].idx > 0

----------------------------------------------------------------------------
(* C9: the counts printed at the end are those of this run: the calls that *)
(* succeeded and the calls that failed, which add up to the number of      *)
(* eligible contacts.                                                      *)
C9_SummaryPerRun ==
    RunComplete =>
        /\ summary.sent = Cardinality(EventsOf("ok"))
        /\ summary.failed = Cardinality(EventsOf("error"))
        /\ summary.sent + summary.failed = Len(toSend)

----------------------------------------------------------------------------
(* C10: a record whose resolved email is missing, empty, "N/A" or without  *)
(* '@' is never selected, never given to the transport, and never gets an  *)
(* entry in sent or failed, in memory or in the file.                      *)
C10_InvalidExcluded ==
    /\ \A n \in 1..Len(toSend) : ~Unusable(ResolveEmail(toSend[n]))
    /\ \A k \in Invocations : ~Unusable(events[k].to)
    /\ \A l \in {log, disk.value} :
          /\ \A n \in 1..Len(l.sent) : ~Unusable(l.sent[n].email)
          /\ \A n \in 1..Len(l.failed) : ~Unusable(l.failed[n].email)

\* a complete run over a list with an unusable record has mailed others
C10_Witness ==
    /\ RunComplete
    /\ \E p \in 1..Len(companies) : ResolveEmail(companies[p]) = NoAt
    /\ \E p \in 1..Len(companies) : ~Truthy(ResolveEmail(companies[p]))
    /\ Invocations # {}

----------------------------------------------------------------------------
\* the addresses in the sent and in the failed sequence of a log
SentAddresses(l) == { l.sent[k].email : k \in 1..Len(l.sent) }
FailedAddresses(l) == { l.failed[k].email : k \in 1..Len(l.failed) }

\* the addresses the transport accepted in an earlier run
AcceptedBefore ==
    { accepted[k].to : k \in { n \in 1..Len(accepted) :
                                   accepted[n].run < runs } }

\* the records of the input whose address is in failed and not in sent
\* when the run loads the log
FailedOnlyRecords ==
    { p \in 1..Len(companies) :
         /\ ~Unusable(ResolveEmail(companies[p]))
         /\ ResolveEmail(companies[p]) \in FailedAddresses(log0)
         /\ ResolveEmail(companies[p]) \notin SentAddresses(log0) }

(* C11: a record whose address is in failed and not in sent at the start   *)
(* of a run is selected and called once in that run; failed keeps its old  *)
(* entries for the address and gains one for each call that failed; and no *)
(* run calls the transport for an address an earlier run delivered to.     *)
C11_FailedStayEligible ==
    /\ RunComplete =>
          \A p \in FailedOnlyRecords :
              LET E == ResolveEmail(companies[p]) IN
              /\ \E idx \in 0..(Len(toSend) - 1) :
                    /\ toSend[idx + 1] = companies[p]
                    /\ Cardinality(InvocationsOf(idx)) = 1
              /\ Len(EntriesFor(log.failed, E)) =
                    Len(EntriesFor(log0.failed, E))
                        + Cardinality(OutcomesFor("error", E))
              /\ Cardinality(OutcomesFor("ok", E))
                    + Cardinality(OutcomesFor("error", E)) >= 1
    /\ \A k \in Invocations : events[k].to \notin AcceptedBefore

\* the second run has failed again for an address the first run failed for,
\* and has skipped an address the first run delivered to
C11_Witness ==
    /\ RunComplete
    /\ runs = 2
    /\ origin = Absent
    /\ \E p \in FailedOnlyRecords :
          Len(EntriesFor(log.failed, ResolveEmail(companies[p]))) = 2
    /\ \E p \in 1..Len(companies) :
          ResolveEmail(companies[p]) \in AcceptedBefore

----------------------------------------------------------------------------
(* The two naming schemes of the input, run side by side: the tool runs    *)
(* over a list in the native scheme, then over the same list written in    *)
(* the alternate scheme, from the same log file.                           *)

MaxTwinContacts == 2    \* longest list in the comparison of the schemes

\* records in the native scheme: email / companyName / founderName
NativeRecords ==
    { Raw(e, c, f, U, U, U) :
         e \in {AatX, Empty}, c \in {U, Empty, Acme}, f \in {U, DrJ, NA} }

\* the same contact in the alternate scheme: EntrepriseContactEmail /
\* EntrepriseName / EntrepriseContactName
Alternate(c) == Raw(U, U, U, c.email, c.companyName, c.founderName)

InitSchemes ==
    /\ argv = <<>>
    /\ env = [user |-> TRUE, pass |-> TRUE]
    /\ companiesFile \in
          { [kind |-> "json", value |-> l] :
               l \in ListsUpTo(NativeRecords, MaxTwinContacts) \ { <<>> } }
    /\ disk \in {Absent, Json(PriorLog)}
    /\ pc = "start"
    /\ companies = <<>>
    /\ log = EmptyLog
    /\ toSend = <<>>
    /\ i = 0
    /\ events = <<>>
    /\ summary = NoSummary
    /\ clock = 1
    /\ runs = 1
    /\ log0 = EmptyLog
    /\ disk0 = disk
    /\ origin = disk
    /\ accepted = <<>>
    /\ twin = NoTwin

\* the run over the native list is over: what it did is kept, the log file
\* is put back, the list is rewritten in the alternate scheme and the tool
\* is started again
Swap ==
    /\ pc = "done"
    /\ ~twin.done
    /\ twin' = [done |-> TRUE, toSend |-> toSend, events |-> events,
                log |-> log]
    /\ companiesFile' =
          [kind |-> "json",
           value |-> [p \in 1..Len(companiesFile.value) |->
                         Alternate(companiesFile.value[p])]]
    /\ disk' = disk0
    /\ pc' = "start"
    /\ companies' = <<>>
    /\ log' = EmptyLog
    /\ toSend' = <<>>
    /\ i' = 0
    /\ events' = <<>>
    /\ summary' = NoSummary
    /\ log0' = EmptyLog
    /\ UNCHANGED <<argv, env, clock, runs, disk0, origin, accepted>>

NextSchemes ==
    \/ Main
    \/ ReadCompanies
    \/ LoadLog
    \/ Invoke
    \/ SendOk
    \/ SendFail
    \/ Sleep
    \/ SaveLog
    \/ Summary
    \/ Swap

SpecSchemes == InitSchemes /\ [][NextSchemes]_vars

\* a log without the timestamps of its entries
SentWithoutTime(l) ==
    [n \in 1..Len(l.sent) |->
        [email |-> l.sent[n].email, companyName |-> l.sent[n].companyName]]
FailedWithoutTime(l) ==
    [n \in 1..Len(l.failed) |->
        [email |-> l.failed[n].email,
         companyName |-> l.failed[n].companyName,
         error |-> l.failed[n].error]]

\* the kinds of the events of a run, in order
Kinds(evs) == [k \in 1..Len(evs) |-> evs[k].t]

(* C12: the run over the alternate-scheme list selects the same contacts   *)
(* as the run over the native list and, when the transport answers the     *)
(* same way, makes the same calls (recipient, subject, body) and leaves    *)
(* the same log entries apart from their timestamps.                       *)
C12_SchemeEquivalence ==
    (RunComplete /\ twin.done) =>
        /\ Len(toSend) = Len(twin.toSend)
        /\ \A n \in 1..Len(toSend) : toSend[n] = Alternate(twin.toSend[n])
        /\ Kinds(events) = Kinds(twin.events) =>
              /\ events = twin.events
              /\ SentWithoutTime(log) = SentWithoutTime(twin.log)
              /\ FailedWithoutTime(log) = FailedWithoutTime(twin.log)

----------------------------------------------------------------------------
(* C13: when the contact list is missing or is not JSON, the run ends with *)
(* the error of the loader: it never gets past reading the list, the log   *)
(* file is neither read nor written and stays as it was, and the transport *)
(* is never called.                                                        *)
C13_FatalLoaderError ==
    (companiesFile.kind # "json"
        /\ ~(Includes(argv, "--help") \/ Includes(argv, "-h"))) =>
        /\ pc \in {"start", "readCompanies", "crashed"}
        /\ EventsOf("readLog") = {}
        /\ EventsOf("write") = {}
        /\ Invocations = {}
        /\ log = EmptyLog
        /\ disk = disk0

\* the run over a list that is not JSON has ended with the error, with a
\* log file from an earlier campaign in place
C13_Witness ==
    /\ pc = "crashed"
    /\ companiesFile.kind = "malformed"
    /\ EventsOf("readList") # {}
    /\ disk = Json(PriorLog)

----------------------------------------------------------------------------
(* C14: with --help or -h among the arguments the program only prints the  *)
(* usage text and ends: the contact list and the log are not read, the log *)
(* is not written, the transport is not called, whether or not the         *)
(* credentials are set.                                                    *)
C14_HelpNoEffect ==
    (Includes(argv, "--help") \/ Includes(argv, "-h")) =>
        /\ pc \in {"start", "done"}
        /\ events \in { <<>>, << [t |-> "usage"] >> }
        /\ pc = "done" => events = << [t |-> "usage"] >>
        /\ disk = disk0
        /\ log = EmptyLog
        /\ ~summary.printed

\* -h has printed the usage text with a credential unset, next to a list
\* with a contact that a run would mail
C14_Witness ==
    /\ pc = "done"
    /\ argv = <<"-h">>
    /\ ~env.pass
    /\ events = << [t |-> "usage"] >>
    /\ companiesFile.kind = "json"
    /\ \E p \in 1..Len(companiesFile.value) :
          ~Unusable(ResolveEmail(companiesFile.value[p]))

----------------------------------------------------------------------------
(* createEmail on its own: the inputs are drawn from names built of a      *)
(* prefix, a gap of white space, a core and a trailing part.               *)

MaxGap == 2     \* most blanks between the honorific and the name

RECURSIVE Blanks(_)
Blanks(n) == IF n = 0 THEN <<>> ELSE <<" ">> \o Blanks(n - 1)

NamePrefixes ==
    { <<>>, <<" ">>,
      <<"M", "r", ".">>, <<"m", "r", "s", ".">>, <<"M", "S", ".">>,
      <<"D", "r", ".">>, <<"d", "R", ".">>, <<"M", ".">>,
      <<"M", "m", "e", ".">>, <<"M", "r">>, <<"M", "x", ".">> }

NameCores ==
    { <<>>, <<"J">>, NA, <<"J", " ", "D">>, <<"D", "r", ".", " ", "J">> }

FounderNames ==
    { Undefined }
        \cup { p \o Blanks(g) \o c \o t :
                  p \in NamePrefixes, g \in 0..MaxGap, c \in NameCores,
                  t \in { <<>>, <<" ">> } }

CompanyNames == { Undefined, Empty, NA, Acme }

InitCompose ==
    /\ argv = <<>>
    /\ env = [user |-> TRUE, pass |-> TRUE]
    /\ companiesFile = [kind |-> "json", value |-> <<>>]
    /\ disk = Absent
    /\ pc = "compose"
    /\ companies \in { << Raw(AatX, c, f, U, U, U) >> :
                          f \in FounderNames, c \in CompanyNames }
    /\ log = EmptyLog
    /\ toSend = <<>>
    /\ i = 0
    /\ events = <<>>
    /\ summary = NoSummary
    /\ clock = 1
    /\ runs = 1
    /\ log0 = EmptyLog
    /\ disk0 = disk
    /\ origin = disk
    /\ accepted = <<>>
    /\ twin = NoTwin

\* line 59: const email = createEmail(founderName, companyName)
Compose ==
    /\ pc = "compose"
    /\ events' = Append(events,
                        [t |-> "composed",
                         mail |-> createEmail(companies[1].founderName,
                                              companies[1].companyName)])
    /\ pc' = "done"
    /\ UNCHANGED <<argv, env, companiesFile, disk, companies, log, toSend, i,
                   summary, clock, runs, log0, disk0, origin, accepted, twin>>

NextCompose == Compose

SpecCompose == InitCompose /\ [][NextCompose]_vars

\* the honorifics of the claim, and the letters that differ only in case
Titles ==
    { <<"M", "r", ".">>, <<"M", "r", "s", ".">>, <<"M", "s", ".">>,
      <<"D", "r", ".">>, <<"M", ".">>, <<"M", "m", "e", ".">> }

SameLetter(x, y) ==
    \/ x = y
    \/ \E pair \in { <<"M", "m">>, <<"R", "r">>, <<"S", "s">>,
                     <<"D", "d">>, <<"E", "e">> } :
          {x, y} = {pair[1], pair[2]}

\* the titles a name begins with
TitlesOf(f) ==
    { h \in Titles : /\ Len(f) >= Len(h)
                     /\ \A k \in 1..Len(h) : SameLetter(f[k], h[k]) }

\* s without the blanks at its two ends: the part between the first and
\* the last character that is not a blank
Core(s) ==
    LET solid == { k \in 1..Len(s) : s[k] # " " } IN
    IF solid = {} THEN <<>>
    ELSE SubSeq(s, CHOOSE a \in solid : \A k \in solid : a <= k,
                   CHOOSE b \in solid : \A k \in solid : b >= k)

\* the name the claim greets: one leading title removed, then the blanks
\* at the two ends
NameToGreet(f) ==
    IF TitlesOf(f) = {} THEN Core(f)
    ELSE LET h == CHOOSE h \in TitlesOf(f) : TRUE IN
         Core(SubSeq(f, Len(h) + 1, Len(f)))

(* C15: the greeting createEmail composes is "Dear {name}" when the        *)
(* founder name, with one leading honorific removed (whatever its case)    *)
(* and trimmed, is not empty and not "N/A"; else "Dear {companyName} team" *)
(* when the company name is present and not "N/A"; else "Dear Hiring       *)
(* Manager"; a missing founder name takes the fallback.                    *)
C15_GreetingChain ==
    pc = "done" =>
        LET f == companies[1].founderName
            c == companies[1].companyName
            g == events[1].mail.greeting
            named == /\ f # Undefined
                     /\ NameToGreet(f) # <<>>
                     /\ NameToGreet(f) # NA
            company == c # Undefined /\ c # <<>> /\ c # NA
        IN  /\ Cardinality(TitlesOf(IF f = Undefined THEN <<>> ELSE f)) <= 1
            /\ named => g = Dear \o NameToGreet(f)
            /\ (~named /\ company) => g = Dear \o c \o TeamSuffix
            /\ (~named /\ ~company) => g = HiringManager
            /\ events[1].mail.subject = SUBJECT

\* a name with an upper-case title and blanks around it has been greeted
\* by the name alone
C15_Witness ==
    /\ pc = "done"
    /\ companies[1].founderName = <<"M", "S", ".", " ", " ", "J", " ">>
    /\ events[1].mail.greeting = Dear \o <<"J">>

\* a missing founder name has led to the greeting of the company
C15_WitnessMissing ==
    /\ pc = "done"
    /\ companies[1].founderName = Undefined
    /\ events[1].mail.greeting = Dear \o Acme \o TeamSuffix

----------------------------------------------------------------------------
\* the events of some kinds, in their order
EventsAmong(kinds) == SelectSeq(events, LAMBDA e : e.t \in kinds)

\* the addresses of the contacts whose call had the outcome kind, in the
\* order of the calls
AddressesOf(kind) ==
    LET evs == EventsAmong({kind}) IN
    [n \in 1..Len(evs) |-> AddressOf(evs[n].idx)]

EmailsOf(entries) == [n \in 1..Len(entries) |-> entries[n].email]

\* the position in the input of the n-th eligible record
NthEligible(n) ==
    CHOOSE p \in EligibleRecords :
        Cardinality({ q \in EligibleRecords : q < p }) = n - 1

(* C16: the contacts of a run are the eligible records in the order of the *)
(* input list; the transport is called for them in that order, each call   *)
(* only after the outcome of the one before; and the entries the run adds  *)
(* to sent and to failed are each in the order of the calls.               *)
C16_InputOrder ==
    InLoop =>
        /\ Len(toSend) = Cardinality(EligibleRecords)
        /\ \A n \in 1..Len(toSend) :
              toSend[n] = companies[NthEligible(n)]
        /\ LET calls == EventsAmong({"invoke", "ok", "error"}) IN
           \A k \in 1..Len(calls) :
               /\ calls[k].idx = (k - 1) \div 2
               /\ (k % 2 = 1) = (calls[k].t = "invoke")
               /\ calls[k].t = "invoke" => calls[k].to = AddressOf(calls[k].idx)
        /\ EmailsOf(NewSent(log)) = AddressesOf("ok")
        /\ EmailsOf(NewFailed(log)) = AddressesOf("error")

\* a complete run over a list whose middle record is unusable has mailed
\* the first record and then the last, two different addresses
C16_Witness ==
    /\ RunComplete
    /\ Len(companies) = 3
    /\ EligibleRecords = {1, 3}
    /\ AddressOf(0) # AddressOf(1)
    /\ Len(NewSent(log)) = 2

----------------------------------------------------------------------------
(* A run whose awaited calls all return: every step of the process that    *)
(* can be taken is taken in the end (the transport answers, the timer      *)
(* fires, the files are read and written).                                 *)
MaxFairContacts == 3    \* longest contact list of the fair runs

FairContacts ==
    { Raw(AatX, Acme, DrJ, U, U, U),
      Raw(BatX, NA, NA, U, U, U),
      Raw(NoAt, Acme, U, U, U, U) }

InitFair ==
    /\ argv \in Arguments
    /\ env \in Environments
    /\ companiesFile \in
          { [kind |-> "json", value |-> l] :
               l \in ListsUpTo(FairContacts, MaxFairContacts) }
    /\ disk \in {Absent, Json(PriorLog)}
    /\ pc = "start"
    /\ companies = <<>>
    /\ log = EmptyLog
    /\ toSend = <<>>
    /\ i = 0
    /\ events = <<>>
    /\ summary = NoSummary
    /\ clock = 1
    /\ runs = 1
    /\ log0 = EmptyLog
    /\ disk0 = disk
    /\ origin = disk
    /\ accepted = <<>>
    /\ twin = NoTwin

Step ==
    \/ Help
    \/ Main
    \/ ReadCompanies
    \/ LoadLog
    \/ Invoke
    \/ SendOk
    \/ SendFail
    \/ Sleep
    \/ SaveLog
    \/ Summary

SpecFair == InitFair /\ [][Step]_vars /\ WF_vars(Step)

(* C17: once the list and the log are loaded the run reaches the end of    *)
(* its loop and prints the summary, having called the transport exactly    *)
(* once for each eligible record and slept at most one time fewer.         *)
C17_Termination ==
    (pc = "loop") ~>
        /\ RunComplete
        /\ Cardinality(Invocations) = Cardinality(EligibleRecords)
        /\ \A idx \in 0..(Len(toSend) - 1) :
              Cardinality(InvocationsOf(idx)) = 1
        /\ \/ Invocations = {}
           \/ Cardinality(EventsOf("sleep")) <= Cardinality(Invocations) - 1

\* a complete run has made three calls and slept twice
C17_Witness ==
    /\ RunComplete
    /\ Cardinality(Invocations) = 3
    /\ Cardinality(EventsOf("sleep")) = 2

----------------------------------------------------------------------------
\* the entries of a sequence carry pairwise different addresses
DistinctEmails(entries) ==
    \A m, n \in 1..Len(entries) :
        entries[m].email = entries[n].email => m = n

(* C18: when the first run started without a log, sent never holds two     *)
(* entries with the same email, in memory or in the file: the transport    *)
(* never succeeds twice for one address.                                   *)
C18_NoDoubleDelivery ==
    origin = Absent =>
        /\ DistinctEmails(log.sent)
        /\ DistinctEmails(disk.value.sent)
        /\ \A m, n \in 1..Len(accepted) :
              accepted[m].to = accepted[n].to => m = n

----------------------------------------------------------------------------
IsPrefix(s, t) == Len(s) <= Len(t) /\ SubSeq(t, 1, Len(s)) = s

(* C19: a step of a run never shortens or alters what the log file holds:  *)
(* the old sent and failed sequences are prefixes of the new ones; and the *)
(* file always holds the sequences the run loaded followed by entries of   *)
(* this run, which are in the order of the attempts.                       *)
C19_LogOnlyGrows ==
    /\ [][/\ IsPrefix(disk.value.sent, disk'.value.sent)
          /\ IsPrefix(disk.value.failed, disk'.value.failed)
          /\ disk' # disk => disk'.kind = "json"]_vars
    /\ [](InLoop =>
            /\ IsPrefix(log0.sent, disk.value.sent)
            /\ IsPrefix(log0.failed, disk.value.failed)
            /\ IsPrefix(EmailsOf(NewSent(disk.value)), AddressesOf("ok"))
            /\ IsPrefix(EmailsOf(NewFailed(disk.value)),
                        AddressesOf("error"))
            /\ \A m, n \in 1..Len(disk.value.sent) :
                  m < n => disk.value.sent[m].timestamp
                              <= disk.value.sent[n].timestamp
            /\ \A m, n \in 1..Len(disk.value.failed) :
                  m < n => disk.value.failed[m].timestamp
                              <= disk.value.failed[n].timestamp)

\* a run that started from the log of an earlier campaign has written a
\* file with a new entry in sent and a new entry in failed
C19_Witness ==
    /\ InLoop
    /\ disk0 = Json(PriorLog)
    /\ Len(NewSent(disk.value)) >= 1
    /\ Len(NewFailed(disk.value)) >= 1

====
